---- MODULE Spec2Model ----
(***************************************************************************)
(* A model of src/api.py: the students CRUD service.                       *)
(*                                                                         *)
(* State: the `student` table, its auto-increment counter, and the request *)
(* context of the request being served (Flask's `request`) with the        *)
(* response the view function returned.  One action per view function,     *)
(* one for requests the URL map rejects, and one for the teardown of the   *)
(* request context.  A second specification, SpecConc, runs two update     *)
(* requests as separate read and commit steps, each in its own session.    *)
(*                                                                         *)
(* The store is the MySQL table declared by class Student: a row is        *)
(* rejected when a NOT NULL column would hold NULL, when a value does not  *)
(* fit its VARCHAR(n) column (the server's default strict mode), or when   *)
(* a UNIQUE column would repeat.                                           *)
(***************************************************************************)
EXTENDS Integers, Sequences, FiniteSets, TLC

VARIABLES
    store,      \* the rows of table `student`
    nextId,     \* the next value of the auto-increment primary key
    request,    \* the request being served, or NoRequest
    response,   \* the response of the view function, or NoResponse
    pc,         \* SpecConc: where each worker's update request stands
    sess,       \* SpecConc: each worker's request and loaded Student
    result,     \* SpecConc: each worker's response
    commits     \* SpecConc: the workers in the order their commits ran

vars == <<store, nextId, request, response, pc, sess, result, commits>>

seqVars == <<store, nextId, request, response>>
concVars == <<pc, sess, result, commits>>

----------------------------------------------------------------------------
(* Bounds of the model *)

\* ids the auto-increment counter may issue
MaxId == 2

(* Column widths of class Student *)
NameMaxLen == 120
EmailMaxLen == 120
CellphoneMaxLen == 13

----------------------------------------------------------------------------
(* JSON values and Python attribute values *)

None == [t |-> "null"]
JStr(s) == [t |-> "str", s |-> s]
JInt(n) == [t |-> "int", n |-> n]

IsStr(v) == v.t = "str"
IsInt(v) == v.t = "int"

Keys == {"name", "email", "age", "cellphone"}

\* a cellphone of 14 characters, one more than the column holds
LongCellphone == "+4915112345678"

NameValues == {JStr("X")}
EmailValues == {JStr("a@x"), JStr("b@x")}
AgeValues == {JInt(0), JInt(21)}
CellphoneValues == {JStr("111"), JStr("222"), JStr(LongCellphone)}

\* marks a key the body does not hold, while the bodies are enumerated
Absent == [t |-> "absent"]

KeyValues(k) ==
    CASE k = "name" -> NameValues
      [] k = "email" -> EmailValues
      [] k = "age" -> AgeValues
      [] k = "cellphone" -> CellphoneValues

\* the JSON objects a request may carry: each key absent, null or a value
Bodies ==
    { [k \in {j \in Keys : full[j] # Absent} |-> full[k]] :
        full \in { f \in [Keys -> {Absent, None} \cup UNION {KeyValues(k) : k \in Keys}] :
                     \A k \in Keys : f[k] \in {Absent, None} \cup KeyValues(k) } }

EmptyBody == [k \in {} |-> None]

\* dict.get(key): None when the key is missing
get(json_data, key) ==
    IF key \in DOMAIN json_data THEN json_data[key] ELSE None

\* dict.get(key, default)
get_default(json_data, key, default) ==
    IF key \in DOMAIN json_data THEN json_data[key] ELSE default

----------------------------------------------------------------------------
(* class Student(db.Model): the table and its constraints *)

\* the attributes of a Student object other than its primary key
Attrs(row) == [k \in Keys |-> row[k]]

\* a row of the table: the primary key and the four columns
MakeRow(id, attrs) ==
    [id |-> id, name |-> attrs["name"], email |-> attrs["email"],
     age |-> attrs["age"], cellphone |-> attrs["cellphone"]]

\* nullable=False on name, email, age and cellphone
NotNullOk(row) == \A k \in Keys : row[k] # None

\* db.String(n): a longer value is rejected
FitsString(v, n) == IsStr(v) => Len(v.s) <= n

FitsColumns(row) ==
    /\ FitsString(row.name, NameMaxLen)
    /\ FitsString(row.email, EmailMaxLen)
    /\ FitsString(row.cellphone, CellphoneMaxLen)

\* unique=True left off the cellphone column
UniqueOk_EmailOnly(table, row) ==
    \A other \in table : other.id # row.id => other.email # row.email

\* unique=True left off the email column
UniqueOk_CellphoneOnly(table, row) ==
    \A other \in table : other.id # row.id => other.cellphone # row.cellphone

\* unique=True on email and on cellphone, against the other rows
UniqueOk(table, row) ==
    \A other \in table :
        other.id # row.id =>
            /\ other.email # row.email
            /\ other.cellphone # row.cellphone

\* the statement is accepted by the table
ConstraintsOk(table, row) ==
    /\ NotNullOk(row)
    /\ FitsColumns(row)
    /\ UniqueOk(table, row)

\* cls.query.get(id) finds a row
Exists(table, id) == \E row \in table : row.id = id

RowOf(table, id) == CHOOSE row \in table : row.id = id

\* a lookup that takes the first row, whatever the id
get_by_id_first(table, id) ==
    IF table # {} THEN CHOOSE row \in table : TRUE ELSE None

\* Student.get_by_id: the row with that primary key, or None for the abort(404)
get_by_id(table, id) ==
    IF Exists(table, id) THEN RowOf(table, id) ELSE None

\* Student.get_all
get_all(table) == table

\* Student.save of a new object: INSERT with the next primary key
\* (the row it writes; whether the commit succeeds is InsertOk)
InsertRow(id, attrs) == MakeRow(id, attrs)

InsertOk(table, id, attrs) == ConstraintsOk(table, InsertRow(id, attrs))

\* a unit of work that writes every column of the object
Dirty_AllColumns(loaded, attrs) == Keys

\* the columns the unit of work writes: those whose value differs from the
\* value the session loaded
Dirty(loaded, attrs) == {k \in Keys : attrs[k] # loaded[k]}

\* Student.save of a loaded object: UPDATE ... SET <dirty columns> WHERE id
UpdateRow(current, loaded, attrs) ==
    MakeRow(current.id,
            [k \in Keys |-> IF k \in Dirty(loaded, attrs) THEN attrs[k] ELSE current[k]])

\* a commit the table's constraints do not check
UpdateOk_Unchecked(table, id, loaded, attrs) ==
    Dirty(loaded, attrs) = {} \/ Exists(table, id)

\* the commit of an update succeeds: nothing to write, or the row is still
\* there and the written row is accepted
UpdateOk(table, id, loaded, attrs) ==
    \/ Dirty(loaded, attrs) = {}
    \/ /\ Exists(table, id)
       /\ ConstraintsOk(table, UpdateRow(RowOf(table, id), loaded, attrs))

\* the table after the commit of an update that succeeds
UpdateTable(table, id, loaded, attrs) ==
    IF Dirty(loaded, attrs) = {}
    THEN table
    ELSE (table \ {RowOf(table, id)}) \cup {UpdateRow(RowOf(table, id), loaded, attrs)}

\* a delete the session never commits
DeleteTable_Uncommitted(table, id) == table

\* Student.delete: DELETE ... WHERE id
DeleteTable(table, id) == {row \in table : row.id # id}

----------------------------------------------------------------------------
(* class StudentSchema(Schema): serialisation *)

\* fields.Str on dump: str(value); None stays None
fields_Str(v) == IF IsInt(v) THEN JStr(ToString(v.n)) ELSE v

\* fields.Integer on dump: int(value) of a value the Integer column returned
fields_Integer(v) == v

\* StudentSchema().dump(student): a flat object of the five fields
dump(row) ==
    [id |-> fields_Integer(JInt(row.id)),
     name |-> fields_Str(row.name),
     email |-> fields_Str(row.email),
     age |-> fields_Integer(row.age),
     cellphone |-> fields_Str(row.cellphone)]

\* StudentSchema(many=True).dump(students); the order is the store's
dump_many(rows) == {dump(row) : row \in rows}

TextBody(text) == [kind |-> "text", text |-> text]
JsonBody(obj) == [kind |-> "json", obj |-> obj]
ListBody(items) == [kind |-> "list", items |-> items]
DocBody(which) == [kind |-> "doc", doc |-> which]

\* the empty JSON object
EmptyObject == [kind |-> "json", obj |-> [k \in {} |-> None]]

Response(body, status) == [status |-> status, body |-> body]

\* @marshal_with(StudentSchema): the returned value is dumped through the
\* schema whatever the status; a plain string has none of the fields
marshal_with(resp) ==
    IF resp.body.kind = "text" THEN Response(EmptyObject, resp.status) ELSE resp

----------------------------------------------------------------------------
(* The URL map: @app.route(rule, methods=[...]) *)

Methods == {"GET", "POST", "PUT", "PATCH", "DELETE", "COMMON"}

\* Flask upper-cases the methods of a rule
Rules ==
    { [rule |-> "/", methods |-> {"GET"}, endpoint |-> "home"],
      [rule |-> "/api-json", methods |-> {"COMMON"}, endpoint |-> "api_doc_json"],
      [rule |-> "/api", methods |-> {"GET"}, endpoint |-> "api_doc_ui"],
      [rule |-> "/api/health-check/ok", methods |-> {"GET"}, endpoint |-> "api_health_ok"],
      [rule |-> "/api/health-check/bad", methods |-> {"GET"}, endpoint |-> "api_health_bad"],
      [rule |-> "/api/students", methods |-> {"GET"}, endpoint |-> "get_all_students"],
      [rule |-> "/api/students/get/<int:id>", methods |-> {"GET"}, endpoint |-> "get_student"],
      [rule |-> "/api/students/add", methods |-> {"POST"}, endpoint |-> "add_student"],
      [rule |-> "/api/students/modify/<int:id>", methods |-> {"PATCH"}, endpoint |-> "patch_student"],
      [rule |-> "/api/students/change/<int:id>", methods |-> {"PUT"}, endpoint |-> "put_student"],
      [rule |-> "/api/students/delete/<int:id>", methods |-> {"DELETE"}, endpoint |-> "delete_student"] }

\* the paths requests are sent to: every rule, and one path no rule matches
Paths == {r.rule : r \in Rules} \cup {"/api/students/remove/<int:id>"}

\* the endpoint a request is routed to; "404" when no rule matches the path,
\* "405" when a rule matches the path and none allows the method
Dispatch(method, path) ==
    IF \E r \in Rules : r.rule = path /\ method \in r.methods
    THEN (CHOOSE r \in Rules : r.rule = path /\ method \in r.methods).endpoint
    ELSE IF \E r \in Rules : r.rule = path THEN "405" ELSE "404"

\* the ids a path parameter <int:id> takes
Ids == 1..MaxId

NoRequest == [method |-> "none"]
NoResponse == [status |-> 0]

Request(method, path, id, json) ==
    [method |-> method, path |-> path, id |-> id, json |-> json]

Idle == request = NoRequest

Workers == {1, 2}

NoSession == [view |-> "none"]

\* the view function returns: the request context now holds the request
\* and the response, and the next request waits for the teardown
Serve(req, resp, table, counter) ==
    /\ request' = req
    /\ response' = resp
    /\ store' = table
    /\ nextId' = counter
    /\ UNCHANGED concVars

\* abort(404) of get_or_404
NotFound == Response(TextBody("Not Found"), 404)

\* an exception no handler catches
InternalServerError == Response(TextBody("Internal Server Error"), 500)

----------------------------------------------------------------------------
(* What the view functions assign *)

\* email and cellphone taken from each other's key
new_student_swapped(json_data) ==
    [name |-> get(json_data, "name"),
     email |-> get(json_data, "cellphone"),
     age |-> get(json_data, "age"),
     cellphone |-> get(json_data, "email")]

\* Student(name=json_data.get('name'), ...)
new_student(json_data) ==
    [name |-> get(json_data, "name"),
     email |-> get(json_data, "email"),
     age |-> get(json_data, "age"),
     cellphone |-> get(json_data, "cellphone")]

\* `if json_data.get(k):`, which also skips 0 and the empty string
patch_assign_truthy(student, json_data) ==
    [k \in Keys |->
        IF get(json_data, k) \notin {None, JInt(0), JStr("")}
        THEN get(json_data, k)
        ELSE student[k]]

\* if json_data.get(k) is not None: student.k = json_data.get(k)
patch_assign(student, json_data) ==
    [k \in Keys |-> IF get(json_data, k) # None THEN get(json_data, k) ELSE student[k]]

\* json_data.get(k, student.k): a missing key keeps the old value
put_assign_keeps_missing(student, json_data) ==
    [k \in Keys |-> get_default(json_data, k, student[k])]

\* student.k = json_data.get(k, default)
put_assign(student, json_data) ==
    [name |-> get_default(json_data, "name", JStr("")),
     email |-> get_default(json_data, "email", JStr("")),
     age |-> get_default(json_data, "age", JInt(0)),
     cellphone |-> get_default(json_data, "cellphone", JStr(""))]

\* what patch_student and put_student return once student.save() has run
\* or raised; the dump reads the row the commit left
update_response(ok, table, id) ==
    IF ok
    THEN marshal_with(Response(JsonBody(dump(RowOf(table, id))), 200))
    ELSE marshal_with(Response(TextBody("Fail saving to db"), 500))

----------------------------------------------------------------------------
(* The view functions *)

home ==
    /\ Idle
    /\ \E m \in Methods :
        /\ Dispatch(m, "/") = "home"
        /\ Serve(Request(m, "/", 0, EmptyBody),
                 Response(TextBody("<p>Hello from students API!</p>"), 200),
                 store, nextId)

api_doc_json ==
    /\ Idle
    /\ \E m \in Methods :
        /\ Dispatch(m, "/api-json") = "api_doc_json"
        /\ Serve(Request(m, "/api-json", 0, EmptyBody),
                 Response(DocBody("swagger_json"), 200), store, nextId)

api_doc_ui ==
    /\ Idle
    /\ \E m \in Methods :
        /\ Dispatch(m, "/api") = "api_doc_ui"
        /\ Serve(Request(m, "/api", 0, EmptyBody),
                 Response(DocBody("swagger_ui"), 200), store, nextId)

api_health_ok ==
    /\ Idle
    /\ \E m \in Methods :
        /\ Dispatch(m, "/api/health-check/ok") = "api_health_ok"
        /\ Serve(Request(m, "/api/health-check/ok", 0, EmptyBody),
                 Response(TextBody("Ok"), 200), store, nextId)

api_health_bad ==
    /\ Idle
    /\ \E m \in Methods :
        /\ Dispatch(m, "/api/health-check/bad") = "api_health_bad"
        /\ Serve(Request(m, "/api/health-check/bad", 0, EmptyBody),
                 Response(TextBody("Fail"), 500), store, nextId)

get_all_students ==
    /\ Idle
    /\ \E m \in Methods :
        /\ Dispatch(m, "/api/students") = "get_all_students"
        /\ Serve(Request(m, "/api/students", 0, EmptyBody),
                 Response(ListBody(dump_many(get_all(store))), 200), store, nextId)

get_student ==
    /\ Idle
    /\ \E m \in Methods, id \in Ids :
        /\ Dispatch(m, "/api/students/get/<int:id>") = "get_student"
        /\ Serve(Request(m, "/api/students/get/<int:id>", id, EmptyBody),
                 IF get_by_id(store, id) # None
                 THEN Response(JsonBody(dump(get_by_id(store, id))), 200)
                 ELSE NotFound,
                 store, nextId)

add_student ==
    /\ Idle
    /\ nextId <= MaxId
    /\ \E m \in Methods :
        /\ Dispatch(m, "/api/students/add") = "add_student"
        /\ \E json_data \in Bodies :
            LET attrs == new_student(json_data)
                req == Request(m, "/api/students/add", 0, json_data)
            IN  IF InsertOk(store, nextId, attrs)
                THEN Serve(req,
                           marshal_with(Response(JsonBody(dump(InsertRow(nextId, attrs))), 201)),
                           store \cup {InsertRow(nextId, attrs)}, nextId + 1)
                ELSE Serve(req, InternalServerError, store, nextId)

patch_student ==
    /\ Idle
    /\ \E m \in Methods, id \in Ids :
        /\ Dispatch(m, "/api/students/modify/<int:id>") = "patch_student"
        /\ \E json_data \in Bodies :
            LET req == Request(m, "/api/students/modify/<int:id>", id, json_data)
                student == get_by_id(store, id)
            IN  IF student = None
                THEN Serve(req, NotFound, store, nextId)
                ELSE LET loaded == Attrs(student)
                         attrs == patch_assign(loaded, json_data)
                         ok == UpdateOk(store, student.id, loaded, attrs)
                         table == IF ok
                                  THEN UpdateTable(store, student.id, loaded, attrs)
                                  ELSE store
                     IN  Serve(req, update_response(ok, table, student.id), table, nextId)

put_student ==
    /\ Idle
    /\ \E m \in Methods, id \in Ids :
        /\ Dispatch(m, "/api/students/change/<int:id>") = "put_student"
        /\ \E json_data \in Bodies :
            LET req == Request(m, "/api/students/change/<int:id>", id, json_data)
                student == get_by_id(store, id)
            IN  IF student = None
                THEN Serve(req, NotFound, store, nextId)
                ELSE LET loaded == Attrs(student)
                         attrs == put_assign(loaded, json_data)
                         ok == UpdateOk(store, student.id, loaded, attrs)
                         table == IF ok
                                  THEN UpdateTable(store, student.id, loaded, attrs)
                                  ELSE store
                     IN  Serve(req, update_response(ok, table, student.id), table, nextId)

delete_student ==
    /\ Idle
    /\ \E m \in Methods, id \in Ids :
        /\ Dispatch(m, "/api/students/delete/<int:id>") = "delete_student"
        /\ LET req == Request(m, "/api/students/delete/<int:id>", id, EmptyBody)
               student == get_by_id(store, id)
           IN  IF student = None
               THEN Serve(req, NotFound, store, nextId)
               ELSE Serve(req, Response(TextBody("deleted"), 200),
                          DeleteTable(store, student.id), nextId)

\* a request the URL map routes to no view function
routing_error ==
    /\ Idle
    /\ \E m \in Methods, path \in Paths :
        /\ Dispatch(m, path) \in {"404", "405"}
        /\ Serve(Request(m, path, 0, EmptyBody),
                 IF Dispatch(m, path) = "404"
                 THEN NotFound
                 ELSE Response(TextBody("Method Not Allowed"), 405),
                 store, nextId)

\* the request context is torn down: the session is removed, and a
\* transaction a failed commit left open is rolled back with it
shutdown_session ==
    /\ ~Idle
    /\ request' = NoRequest
    /\ response' = NoResponse
    /\ UNCHANGED <<store, nextId, concVars>>

----------------------------------------------------------------------------
(* The sequential service: one request at a time *)

InitConc ==
    /\ pc = [w \in Workers |-> "idle"]
    /\ sess = [w \in Workers |-> NoSession]
    /\ result = [w \in Workers |-> NoResponse]
    /\ commits = <<>>

Init ==
    /\ store = {}
    /\ nextId = 1
    /\ request = NoRequest
    /\ response = NoResponse
    /\ InitConc

Next ==
    \/ home
    \/ api_doc_json
    \/ api_doc_ui
    \/ api_health_ok
    \/ api_health_bad
    \/ get_all_students
    \/ get_student
    \/ add_student
    \/ patch_student
    \/ put_student
    \/ delete_student
    \/ routing_error
    \/ shutdown_session

Spec == Init /\ [][Next]_vars

----------------------------------------------------------------------------
(* Two update requests served at once, one worker and one session each.   *)
(* A view function is two steps: it loads the Student and assigns the     *)
(* attributes in its own session, and later student.save() commits.       *)

\* the bodies the two requests carry: values the table accepts
ConcBodies ==
    {b \in Bodies : \A k \in DOMAIN b : b[k] # None /\ b[k] # JStr(LongCellphone)}

\* a store two POSTs and one PUT leave: the first row blanked in part
ConcStore ==
    { MakeRow(1, [name |-> JStr(""), email |-> JStr("a@x"),
                  age |-> JInt(0), cellphone |-> JStr("111")]),
      MakeRow(2, [name |-> JStr("X"), email |-> JStr("b@x"),
                  age |-> JInt(21), cellphone |-> JStr("222")]) }

ConcInit ==
    /\ store = ConcStore
    /\ nextId = 3
    /\ request = NoRequest
    /\ response = NoResponse
    /\ InitConc

\* student = Student.get_by_id(id) and the assignments, in the worker's session
Load(w, view, id, json_data) ==
    /\ pc[w] = "idle"
    /\ IF get_by_id(store, id) # None
       THEN LET student == Attrs(get_by_id(store, id))
            IN  /\ pc' = [pc EXCEPT ![w] = "loaded"]
                /\ sess' = [sess EXCEPT ![w] =
                              [view |-> view, id |-> id, json |-> json_data,
                               loaded |-> student,
                               attrs |-> IF view = "patch_student"
                                         THEN patch_assign(student, json_data)
                                         ELSE put_assign(student, json_data)]]
                /\ UNCHANGED result
       ELSE /\ pc' = [pc EXCEPT ![w] = "done"]
            /\ sess' = [sess EXCEPT ![w] =
                          [view |-> view, id |-> id, json |-> json_data]]
            /\ result' = [result EXCEPT ![w] = NotFound]
    /\ UNCHANGED <<seqVars, commits>>

patch_student_load(w) ==
    \E id \in Ids, json_data \in ConcBodies : Load(w, "patch_student", id, json_data)

put_student_load(w) ==
    \E id \in Ids, json_data \in ConcBodies : Load(w, "put_student", id, json_data)

\* student.save() and the return of the view function
Save(w, view) ==
    /\ pc[w] = "loaded"
    /\ sess[w].view = view
    /\ LET id == sess[w].id
           ok == UpdateOk(store, id, sess[w].loaded, sess[w].attrs)
           table == IF ok THEN UpdateTable(store, id, sess[w].loaded, sess[w].attrs)
                          ELSE store
       IN  /\ store' = table
           /\ result' = [result EXCEPT ![w] = update_response(ok, table, id)]
           /\ commits' = IF ok THEN Append(commits, w) ELSE commits
    /\ pc' = [pc EXCEPT ![w] = "done"]
    /\ UNCHANGED <<nextId, request, response, sess>>

patch_student_save(w) == Save(w, "patch_student")

put_student_save(w) == Save(w, "put_student")

ConcNext ==
    \E w \in Workers :
        \/ patch_student_load(w)
        \/ put_student_load(w)
        \/ patch_student_save(w)
        \/ put_student_save(w)

SpecConc == ConcInit /\ [][ConcNext]_vars

----------------------------------------------------------------------------
(* The claims.  A step of Spec that serves a request leaves an idle state  *)
(* for one that holds the request and its response: `store` is the table   *)
(* before the request, `store'` the table after it.                        *)

\* this step serves a request routed to `view`
Served(view) ==
    /\ Idle
    /\ request' # NoRequest
    /\ Dispatch(request'.method, request'.path) = view

\* the request just served was routed to `view`
Last(view) ==
    /\ request # NoRequest
    /\ Dispatch(request.method, request.path) = view

\* the body gives `key` a value other than null
Given(json_data, key) == key \in DOMAIN json_data /\ json_data[key] # None

\* a stored row other than `id` has the email or the cellphone of `attrs`
Clashes(table, id, attrs) ==
    \E row \in table :
        /\ row.id # id
        /\ \/ row.email = attrs["email"]
           \/ row.cellphone = attrs["cellphone"]

\* the body's own email or cellphone is that of a stored row
BodyClashes(table, json_data) ==
    \E row \in table :
        \/ Given(json_data, "email") /\ row.email = json_data["email"]
        \/ Given(json_data, "cellphone") /\ row.cellphone = json_data["cellphone"]

\* C1: a POST /api/students/add whose email or cellphone is that of a stored
\* record answers 500 and leaves the set of stored records as it was
C1_AddClashRejected ==
    [][ (Served("add_student") /\ BodyClashes(store, request'.json))
            => (response'.status = 500 /\ store' = store) ]_vars

\* a complete, well-formed body was refused only for its email
C1_Witness ==
    /\ Last("add_student")
    /\ response.status = 500
    /\ DOMAIN request.json = Keys
    /\ \A k \in Keys : request.json[k] # None
    /\ request.json["cellphone"] # JStr(LongCellphone)
    /\ \E row \in store : row.email = request.json["email"]
    /\ \A row \in store : row.cellphone # request.json["cellphone"]

\* C2: no two stored records share an email or a cellphone (nor an id),
\* whatever sequence of add, modify, change and delete requests ran
C2_UniqueColumns ==
    \A r1 \in store : \A r2 \in store :
        r1 # r2 => /\ r1.id # r2.id
                   /\ r1.email # r2.email
                   /\ r1.cellphone # r2.cellphone

\* a PUT that would have given a second record the empty email was refused
C2_Witness ==
    /\ Last("put_student")
    /\ response.status = 500
    /\ "email" \notin DOMAIN request.json
    /\ Given(request.json, "name") /\ Given(request.json, "age")
    /\ Given(request.json, "cellphone")
    /\ \E row \in store : row.id = request.id /\ row.email # JStr("")
    /\ \E row \in store : row.id # request.id /\ row.email = JStr("")
    /\ \A row \in store : row.id # request.id => row.cellphone # request.json["cellphone"]
    /\ request.json["cellphone"] # JStr(LongCellphone)

\* C3: a PATCH that answers 200 gives the record exactly the values the body
\* holds that are not null, keeps every other field and the id, and leaves
\* every other record as it was
C3_PatchAppliesGiven ==
    [][ (Served("patch_student") /\ response'.status = 200)
            => /\ Exists(store, request'.id)
               /\ Exists(store', request'.id)
               /\ LET old == RowOf(store, request'.id)
                      new == RowOf(store', request'.id)
                  IN  /\ \A k \in Keys :
                            new[k] = IF Given(request'.json, k)
                                     THEN request'.json[k]
                                     ELSE old[k]
                      /\ store' \ {new} = store \ {old} ]_vars

\* body {"age": 21} was applied to a record whose name a PUT had blanked
C3_Witness ==
    /\ Last("patch_student")
    /\ response.status = 200
    /\ request.json = [k \in {"age"} |-> JInt(21)]
    /\ \E row \in store :
         /\ row.id = request.id
         /\ row.age = JInt(21)
         /\ row.name = JStr("")
    /\ Cardinality(store) = 2

\* what a PUT writes: the body's value, or the default of a missing key
PutValue(json_data, k) ==
    IF k \in DOMAIN json_data
    THEN json_data[k]
    ELSE IF k = "age" THEN JInt(0) ELSE JStr("")

OnlyNameX == [k \in {"name"} |-> JStr("X")]

BlankWithNameX ==
    [name |-> JStr("X"), email |-> JStr(""), age |-> JInt(0), cellphone |-> JStr("")]

\* C4 as stated: a PUT with body {"name": "X"} on any existing record answers
\* 200 and leaves it with name "X", empty email and cellphone, and age 0
C4_PutNameOnlyAlways ==
    [][ (Served("put_student") /\ Exists(store, request'.id)
            /\ request'.json = OnlyNameX)
            => /\ response'.status = 200
               /\ Exists(store', request'.id)
               /\ Attrs(RowOf(store', request'.id)) = BlankWithNameX ]_vars

\* C4 as amended: a PUT that answers 200 has overwritten every field with
\* the body's value or the default of a missing key; a PUT with body
\* {"name": "X"} answers 200 and blanks the record when no other record holds
\* the empty email or the empty cellphone, and answers 500 when one does
C4_PutOverwrites ==
    [][ (Served("put_student") /\ Exists(store, request'.id))
            => /\ response'.status = 200 =>
                    /\ Exists(store', request'.id)
                    /\ \A k \in Keys :
                          RowOf(store', request'.id)[k] = PutValue(request'.json, k)
                    /\ response'.body = JsonBody(dump(RowOf(store', request'.id)))
               /\ request'.json = OnlyNameX =>
                    IF Clashes(store, request'.id, BlankWithNameX)
                    THEN response'.status = 500
                    ELSE /\ response'.status = 200
                         /\ Attrs(RowOf(store', request'.id)) = BlankWithNameX ]_vars

\* body {"name": "X"} blanked one of two records
C4_Witness ==
    /\ Last("put_student")
    /\ response.status = 200
    /\ request.json = OnlyNameX
    /\ Cardinality(store) = 2
    /\ \E row \in store : row.id = request.id /\ Attrs(row) = BlankWithNameX

IdViews == {"get_student", "patch_student", "put_student", "delete_student"}

\* C5: GET, PATCH, PUT and DELETE on an id no stored record has answer 404
\* and leave the store as it was, whatever the body
C5_AbsentIdNotFound ==
    [][ \A view \in IdViews :
          (Served(view) /\ ~Exists(store, request'.id))
            => (response'.status = 404 /\ store' = store) ]_vars

\* a PUT with a complete body on an absent id, with a record in the store
C5_Witness ==
    /\ Last("put_student")
    /\ response.status = 404
    /\ DOMAIN request.json = Keys
    /\ \A k \in Keys : request.json[k] # None
    /\ store # {}
    /\ ~Exists(store, request.id)

\* C6: a DELETE on an existing id answers 200 "deleted", removes that record
\* and no other; an id once removed stays absent, a GET on an absent id
\* answers 404, and GET /api/students lists exactly the stored records
C6_DeleteRemoves ==
    [][ /\ (Served("delete_student") /\ Exists(store, request'.id))
            => /\ response' = Response(TextBody("deleted"), 200)
               /\ ~Exists(store', request'.id)
               /\ store' = store \ {RowOf(store, request'.id)}
        /\ \A id \in Ids :
            (id < nextId /\ ~Exists(store, id)) => ~Exists(store', id)
        /\ (Served("get_student") /\ ~Exists(store, request'.id))
            => response'.status = 404
        /\ Served("get_all_students")
            => response'.body = ListBody({dump(row) : row \in store}) ]_vars

\* a GET answered 404 for an id the store had issued, beside a kept record
C6_Witness ==
    /\ Last("get_student")
    /\ response.status = 404
    /\ request.id < nextId
    /\ store # {}

\* the body holds the four fields, none null
Complete(json_data) ==
    /\ DOMAIN json_data = Keys
    /\ \A k \in Keys : json_data[k] # None

\* the record POST creates, and what GET then returns for it
Created(json_data) ==
    /\ response'.status = 201
    /\ ~Exists(store, nextId)
    /\ store' = store \cup {MakeRow(nextId, json_data)}
    /\ response'.body = JsonBody([id |-> JInt(nextId), name |-> json_data["name"],
                                  email |-> json_data["email"], age |-> json_data["age"],
                                  cellphone |-> json_data["cellphone"]])

Fits(json_data) ==
    /\ Len(json_data["name"].s) <= NameMaxLen
    /\ Len(json_data["email"].s) <= EmailMaxLen
    /\ Len(json_data["cellphone"].s) <= CellphoneMaxLen

C9_GetApiJson ==
    (request # NoRequest /\ request.method = "GET" /\ request.path = "/api-json")
        => response.status = 200

\* what patch_student and put_student offer the store for the record
Offered(view, old, json_data) ==
    [k \in Keys |->
        IF view = "put_student"
        THEN PutValue(json_data, k)
        ELSE IF Given(json_data, k) THEN json_data[k] ELSE old[k]]

\* C10: a PATCH or PUT on an existing record that does not answer 200 leaves
\* the store as it was, and one whose new email or cellphone is that of
\* another record answers 500
C10_FailedUpdateUnchanged ==
    [][ \A view \in {"patch_student", "put_student"} :
          (Served(view) /\ Exists(store, request'.id))
            => /\ response'.status # 200 => (response'.status = 500 /\ store' = store)
               /\ Clashes(store, request'.id,
                          Offered(view, RowOf(store, request'.id), request'.json))
                    => response'.status = 500 ]_vars

\* a PATCH of only the email was refused: another record has that email
C10_Witness ==
    /\ Last("patch_student")
    /\ response.status = 500
    /\ DOMAIN request.json = {"email"}
    /\ \E row \in store : row.id = request.id /\ row.email # request.json["email"]
    /\ \E row \in store : row.id # request.id /\ row.email = request.json["email"]

\* both workers' updates of record `id` answered 200, a's commit before b's
BothUpdated(a, b, id) ==
    /\ a # b
    /\ commits = <<a, b>>
    /\ pc[a] = "done" /\ pc[b] = "done"
    /\ result[a].status = 200 /\ result[b].status = 200
    /\ sess[a].id = id /\ sess[b].id = id

\* what the worker's request would have written alone to the record it read
Alone(w) == Offered(sess[w].view, sess[w].loaded, sess[w].json)

\* C8 as stated: after two concurrent updates of one record, each of which
\* changes the record it read, the stored record is what the later-committing
\* request would have written alone from the record it read
C8_LastRequestWins ==
    \A a \in Workers, b \in Workers, id \in Ids :
        (BothUpdated(a, b, id)
            /\ Alone(a) # sess[a].loaded /\ Alone(b) # sess[b].loaded)
            => Attrs(RowOf(store, id)) = Alone(b)

\* C8 as amended: both may succeed, and the stored record has, field by
\* field, the later-committing request's value where that request changed
\* the field it read, and the earlier request's value elsewhere
C8_LastWriteWinsPerField ==
    \A a \in Workers, b \in Workers, id \in Ids :
        BothUpdated(a, b, id) =>
            /\ Exists(store, id)
            /\ \A k \in Keys :
                  RowOf(store, id)[k] =
                      IF Alone(b)[k] # sess[b].loaded[k] THEN Alone(b)[k] ELSE Alone(a)[k]

\* two PATCHes of record 1 both answered 200 and the record holds the name
\* of one and the age of the other
C8_Witness ==
    \E a \in Workers, b \in Workers :
        /\ BothUpdated(a, b, 1)
        /\ sess[a].view = "patch_student" /\ sess[b].view = "patch_student"
        /\ sess[a].loaded = sess[b].loaded
        /\ Attrs(RowOf(store, 1)) # Alone(a)
        /\ Attrs(RowOf(store, 1)) # Alone(b)

====
